---- MODULE Spec2Model ----
(***************************************************************************)
(* Inventory reservation and request lifecycle of the tire allocation      *)
(* service: RequestsService (requests.service.ts), SellersService          *)
(* (sellers.service.ts) and quotaUtils (quotas.ts).                        *)
(*                                                                         *)
(* The authoritative store is the Prisma client over SQLite                *)
(* (plugin/db.ts): an interactive $transaction is serializable, so a       *)
(* transaction is one atomic step here.  Every other await of a handler    *)
(* is a point where the handlers of concurrent callers interleave: the     *)
(* quota read before the transaction, the read before the update in the    *)
(* seller operations, the stock read and the cache write after a commit.   *)
(***************************************************************************)
EXTENDS Integers, Sequences, FiniteSets, TLC

-----------------------------------------------------------------------------
(* Bounds of the model *)

\* concurrent request handlers
NumProcs == 2
\* status events (creations and accepted transitions) in one behaviour
MaxEvents == 4
\* request rows beyond which no further createRequest is issued, when callers
\* only create (MaxRequests), when they create and cancel (MaxStockRequests),
\* and when the sellers act as well (MaxLiveRequests)
MaxRequests == 3
MaxStockRequests == 2
MaxLiveRequests == 1
\* request rows beyond which no further createRequest is issued while quotas are
\* exercised (SpecQuota)
MaxQuotaRequests == 3
\* largest quantity a caller asks for (the schema allows up to MaxQuantity)
MaxInputQty == 2
\* initial stock of the contended station/tire pair
InitStock == 3
\* calls in a run that is run a second time with another cache
MaxTwinCalls == 3

-----------------------------------------------------------------------------
(* Program constants and the fixed tables the engine only reads *)

\* createRequestSchema: quantity max(4)
MaxQuantity == 4
\* quotaConfig.LEGER.maxPerYear
QuotaLeger == 4
\* quotaConfig.LOURD.maxPerYear
QuotaLourd == 8
\* new Date().getFullYear()
CurrentYear == 2025
\* a Redis key that was never set
NoValue == -1
\* a request id no row has
NoReq == 0

Procs == 1 .. NumProcs
Quantities == 1 .. (IF MaxInputQty < MaxQuantity THEN MaxInputQty ELSE MaxQuantity)

NoStation == "none"
Stations == {"s1", "s2"}
Tires == {"t1", "t2"}
TireType == [t \in Tires |-> IF t = "t1" THEN "LEGER" ELSE "LOURD"]
\* user rows; u3 exists but is not verified
Users == {"u1", "u2", "u3"}
Verified == {"u1", "u2"}
\* seller rows and the station each one belongs to
Sellers == {"v1", "v2"}
SellerStation == [v \in Sellers |-> IF v = "v1" THEN "s1" ELSE "s2"]
Pairs == Stations \X Tires

Statuses == {"EN_ATTENTE", "EN_PREPARATION", "PRET", "LIVRE", "ANNULE"}
\* updateStatusSchema of the seller route
SellerStatuses == {"EN_ATTENTE", "EN_PREPARATION", "PRET", "LIVRE"}

\* StationInventory rows at start; no station holds a row for t2
InitialInventory == (<<"s1", "t1">> :> InitStock) @@ (<<"s2", "t1">> :> 2)

-----------------------------------------------------------------------------
VARIABLES
    inventory,      \* StationInventory: [existing (station, tire) -> quantity]
    requests,       \* TireRequest rows; the id of a row is its index
    statusHistory,  \* RequestStatusEvent rows in insertion order
    redis,          \* the cache: [(station, tire) -> value or NoValue]
    proc,           \* the handler each worker is running and its locals
    result,         \* the call that returned or threw in the last step, if one did
    reservedAt,     \* history: the station whose row the creation of request i decremented
    released,       \* history: [(station, tire) -> total quantity added back by cancellations]
    releasedOf,     \* history: the quantity cancellations of request i added back to stock
    twin            \* history: the calls of a first run and how a second run compares

vars ==
    <<inventory, requests, statusHistory, redis, proc, result, reservedAt, released,
      releasedOf, twin>>
store == <<inventory, requests, statusHistory>>
history == <<reservedAt, released, releasedOf>>

NoQuota == [available |-> FALSE, remaining |-> 0, used |-> 0, max |-> 0]

\* what a call that has not returned a value holds in its place
NoReturn == [request |-> NoReq, quotaInfo |-> [used |-> 0, remaining |-> 0, max |-> 0]]

Idle ==
    [pc |-> "idle", op |-> "none", actor |-> "none", reqId |-> NoReq,
     stationId |-> NoStation, tireId |-> "none", quantity |-> 0,
     status |-> "none", qrHash |-> 0, value |-> NoValue,
     quotaCheck |-> NoQuota, stockBefore |-> NoValue, outcome |-> "none",
     returned |-> NoReturn]

\* the database as the service finds it: the seeded stock and no request
EmptyStore == [inventory |-> InitialInventory, requests |-> <<>>, statusHistory |-> <<>>]

\* the cache with nothing in it
EmptyCache == [k \in Pairs |-> NoValue]

\* no second run is compared with a first one
NoTwin ==
    [on |-> FALSE, phase |-> 1, calls |-> <<>>, pos |-> 1, same |-> TRUE,
     first |-> EmptyStore, cache |-> EmptyCache]

Init ==
    /\ inventory = InitialInventory
    /\ requests = <<>>
    /\ statusHistory = <<>>
    /\ redis = EmptyCache
    /\ proc = [p \in Procs |-> Idle]
    /\ result = Idle
    /\ reservedAt = <<>>
    /\ released = [k \in Pairs |-> 0]
    /\ releasedOf = <<>>
    /\ twin = NoTwin

\* what the caller passed to the call c: the body of a createRequest, the
\* scanned hash of a completeDelivery, the id and the status of the other calls
CallOf(c) ==
    IF c.op = "createRequest"
    THEN [op |-> c.op, actor |-> c.actor, stationId |-> c.stationId,
          tireId |-> c.tireId, quantity |-> c.quantity, reqId |-> NoReq,
          status |-> "none", qrHash |-> 0]
    ELSE IF c.op = "completeDelivery"
    THEN [op |-> c.op, actor |-> c.actor, stationId |-> NoStation,
          tireId |-> "none", quantity |-> 0, reqId |-> NoReq,
          status |-> "none", qrHash |-> c.qrHash]
    ELSE [op |-> c.op, actor |-> c.actor, stationId |-> NoStation,
          tireId |-> "none", quantity |-> 0, reqId |-> c.reqId,
          status |-> c.status, qrHash |-> 0]

\* what the caller of the call c gets: what it returned, or the error it threw
ReplyOf(c, outcome) ==
    [outcome |-> outcome,
     returned |-> IF c.op = "createRequest" /\ outcome = "OK"
                  THEN c.returned ELSE NoReturn]

\* the record of two runs once the call c has ended: the first run notes the
\* call and its reply, the second compares its reply with the one noted
Logged(t, c, outcome) ==
    IF ~t.on THEN t
    ELSE IF t.phase = 1
    THEN [t EXCEPT !.calls = Append(@, [call |-> CallOf(c), reply |-> ReplyOf(c, outcome)])]
    ELSE [t EXCEPT !.same = @ /\ t.pos <= Len(t.calls)
                              /\ t.calls[t.pos].reply = ReplyOf(c, outcome),
                   !.pos = @ + 1]

\* worker p goes on with call c
Continue(p, c) ==
    /\ proc' = [proc EXCEPT ![p] = c]
    /\ result' = Idle
    /\ UNCHANGED twin

\* the call c of worker p returns ("OK") or throws: the worker is free again
Finish(p, c, outcome) ==
    /\ proc' = [proc EXCEPT ![p] = Idle]
    /\ result' = [c EXCEPT !.pc = "done", !.outcome = outcome]
    /\ twin' = Logged(twin, c, outcome)

Call(op, actor) == [Idle EXCEPT !.op = op, !.actor = actor]

\* calls under way
Pending == Cardinality({p \in Procs : proc[p].pc # "idle"})

-----------------------------------------------------------------------------
(* quotaUtils *)

getMaxQuota(type) == IF type = "LEGER" THEN QuotaLeger ELSE QuotaLourd

\* a where clause that leaves the cancelled requests out as well
QuotaFilterActive(reqs, userId, tireType, year) ==
    {i \in 1 .. Len(reqs) :
        /\ reqs[i].userId = userId
        /\ reqs[i].year = year
        /\ TireType[reqs[i].tireId] = tireType
        /\ reqs[i].status \notin {"LIVRE", "ANNULE"}}

\* the rows the aggregate's where clause selects
QuotaFilter(reqs, userId, tireType, year) ==
    {i \in 1 .. Len(reqs) :
        /\ reqs[i].userId = userId
        /\ reqs[i].year = year
        /\ TireType[reqs[i].tireId] = tireType
        /\ reqs[i].status # "LIVRE"}

RECURSIVE SumQuantity(_, _)
SumQuantity(reqs, ids) ==
    IF ids = {} THEN 0
    ELSE LET i == CHOOSE x \in ids : TRUE
         IN reqs[i].quantity + SumQuantity(reqs, ids \ {i})

\* the same result with the comparison left out
checkQuotaAlwaysAvailable(reqs, userId, tireType, requestedQuantity, year) ==
    LET maxQuota == getMaxQuota(tireType)
        used == SumQuantity(reqs, QuotaFilter(reqs, userId, tireType, year))
        remaining == maxQuota - used
    IN [available |-> TRUE, remaining |-> remaining, used |-> used, max |-> maxQuota]
checkQuotaAvailability(reqs, userId, tireType, requestedQuantity, year) ==
    LET maxQuota == getMaxQuota(tireType)
        used == SumQuantity(reqs, QuotaFilter(reqs, userId, tireType, year))
        remaining == maxQuota - used
    IN [available |-> remaining >= requestedQuantity,
        remaining |-> remaining, used |-> used, max |-> maxQuota]

-----------------------------------------------------------------------------
(* RequestsService.createRequest *)

\* steps 1-4: the guards and the quota read, before the transaction opens
CreateStart(p, userId, stationId, tireId, quantity) ==
    /\ proc[p].pc = "idle"
    /\ LET c == [Call("createRequest", userId) EXCEPT
                    !.stationId = stationId, !.tireId = tireId, !.quantity = quantity]
       IN IF stationId = NoStation THEN Finish(p, c, "STATION_REQUIRED")
          ELSE IF userId \notin Verified THEN Finish(p, c, "NOT_VERIFIED")
          ELSE IF tireId \notin Tires THEN Finish(p, c, "TIRE_NOT_FOUND")
          ELSE LET q == checkQuotaAvailability(requests, userId, TireType[tireId],
                                               quantity, CurrentYear)
               IN IF ~q.available
                  THEN Finish(p, [c EXCEPT !.quotaCheck = q], "QUOTA_EXCEEDED")
                  ELSE Continue(p, [c EXCEPT !.pc = "c_tx", !.quotaCheck = q])
    /\ UNCHANGED <<store, redis, history>>

\* the where clause of the updateMany: the row exists and holds enough
\* (ReserveGuardCached: decided from the cached stock when the cache holds one)
ReserveGuardCached(inv, pair, qty) ==
    /\ pair \in DOMAIN inv
    /\ (IF redis[pair] # NoValue THEN redis[pair] ELSE inv[pair]) >= qty
ReserveGuardPositive(inv, pair, qty) == pair \in DOMAIN inv /\ inv[pair] > 0
ReserveGuard(inv, pair, qty) == pair \in DOMAIN inv /\ inv[pair] >= qty

\* a count that is never found to be 0
UpdateManyCountUnchecked(inv, pair, qty) == 1
\* the rows the updateMany changed
UpdateManyCount(inv, pair, qty) == IF ReserveGuard(inv, pair, qty) THEN 1 ELSE 0

\* data: { quantity: { decrement: quantity } } on the rows the where clause selects
DecrementByOne(inv, pair, qty) ==
    IF ReserveGuard(inv, pair, qty) THEN [inv EXCEPT ![pair] = @ - 1] ELSE inv
DecrementWhere(inv, pair, qty) ==
    IF ReserveGuard(inv, pair, qty) THEN [inv EXCEPT ![pair] = @ - qty] ELSE inv

\* what an interactive transaction leaves behind when its callback throws
NotRolledBack(before, partial) == partial
RolledBack(before, partial) == before

NewRequest(c, qrHash) ==
    [userId |-> c.actor, tireId |-> c.tireId, stationId |-> c.stationId,
     status |-> "EN_ATTENTE", qrCodeHash |-> qrHash, year |-> CurrentYear,
     quantity |-> c.quantity, qrUsed |-> FALSE, deliveredAt |-> FALSE]

\* an event row that always carries the initial status
StatusEventPending(requestId, status) == [requestId |-> requestId, status |-> "EN_ATTENTE"]
\* a RequestStatusEvent row; changedBy and note are written and never read
StatusEvent(requestId, status) == [requestId |-> requestId, status |-> status]

\* the hash is taken: the unique constraint on qrCodeHash rejects the insert
HashTaken(reqs, qrHash) == \E i \in 1 .. Len(reqs) : reqs[i].qrCodeHash = qrHash

\* The same statements without the transaction and with the stock checked
\* after an unconditional decrement.
CreateTxUnguarded(inv, reqs, hist, c, qrHash) ==
    LET pair == <<c.stationId, c.tireId>>
        dec == IF pair \in DOMAIN inv THEN [inv EXCEPT ![pair] = @ - c.quantity] ELSE inv
    IN IF pair \notin DOMAIN inv \/ dec[pair] < 0
       THEN [error |-> "OUT_OF_STOCK", inventory |-> dec, requests |-> reqs,
             statusHistory |-> hist, finalStockCount |-> 0]
       ELSE [error |-> "none", inventory |-> dec,
             requests |-> Append(reqs, NewRequest(c, qrHash)),
             statusHistory |-> Append(hist, StatusEvent(Len(reqs) + 1, "EN_ATTENTE")),
             finalStockCount |-> dec[pair]]

\* B: finalStockCount = inventory?.quantity || 0, read after the decrement
FinalStockCount(inv, pair) == IF pair \in DOMAIN inv THEN inv[pair] ELSE 0

\* step 5: what prisma.$transaction leaves in the store, and how it ends
CreateTxResult(inv, reqs, hist, c, qrHash) ==
    LET pair == <<c.stationId, c.tireId>>
        count == UpdateManyCount(inv, pair, c.quantity)
        dec == DecrementWhere(inv, pair, c.quantity)
    IN IF count = 0
       THEN [error |-> "OUT_OF_STOCK", inventory |-> RolledBack(inv, dec),
             requests |-> reqs, statusHistory |-> hist, finalStockCount |-> 0]
       ELSE IF HashTaken(reqs, qrHash)
       THEN [error |-> "P2002", inventory |-> RolledBack(inv, dec),
             requests |-> reqs, statusHistory |-> hist, finalStockCount |-> 0]
       ELSE [error |-> "none", inventory |-> dec,
             requests |-> Append(reqs, NewRequest(c, qrHash)),
             statusHistory |-> Append(hist, StatusEvent(Len(reqs) + 1, "EN_ATTENTE")),
             finalStockCount |-> FinalStockCount(dec, pair)]

\* the stock the transaction found, for the record of the call
StockOf(inv, pair) == IF pair \in DOMAIN inv THEN inv[pair] ELSE NoValue

\* the same step with the cache written from inside the transaction
CreateTxDispatching(p, qrHash) ==
    /\ proc[p].pc = "c_tx"
    /\ LET r == CreateTxResult(inventory, requests, statusHistory, proc[p], qrHash)
           pair == <<proc[p].stationId, proc[p].tireId>>
           c == [proc[p] EXCEPT !.stockBefore = StockOf(inventory, pair)]
       IN /\ inventory' = r.inventory
          /\ requests' = r.requests
          /\ statusHistory' = r.statusHistory
          /\ redis' = [redis EXCEPT
                          ![pair] = FinalStockCount(
                                        DecrementWhere(inventory, pair, proc[p].quantity),
                                        pair)]
          /\ reservedAt' = IF Len(r.requests) > Len(requests)
                           THEN Append(reservedAt, c.stationId) ELSE reservedAt
          /\ releasedOf' = IF Len(r.requests) > Len(requests)
                           THEN Append(releasedOf, 0) ELSE releasedOf
          /\ IF r.error = "OUT_OF_STOCK"
             THEN Continue(p, [c EXCEPT !.pc = "c_oos"])
             ELSE IF r.error # "none"
             THEN Finish(p, c, r.error)
             ELSE Continue(p, [c EXCEPT !.pc = "c_redis", !.value = r.finalStockCount,
                                        !.reqId = Len(r.requests), !.qrHash = qrHash])
    /\ UNCHANGED released

CreateTx(p, qrHash) ==
    /\ proc[p].pc = "c_tx"
    /\ LET r == CreateTxResult(inventory, requests, statusHistory, proc[p], qrHash)
           c == [proc[p] EXCEPT
                    !.stockBefore = StockOf(inventory, <<proc[p].stationId, proc[p].tireId>>)]
       IN /\ inventory' = r.inventory
          /\ requests' = r.requests
          /\ statusHistory' = r.statusHistory
          /\ reservedAt' = IF Len(r.requests) > Len(requests)
                           THEN Append(reservedAt, c.stationId) ELSE reservedAt
          /\ releasedOf' = IF Len(r.requests) > Len(requests)
                           THEN Append(releasedOf, 0) ELSE releasedOf
          /\ IF r.error = "OUT_OF_STOCK"
             THEN Continue(p, [c EXCEPT !.pc = "c_oos"])
             ELSE IF r.error # "none"
             THEN Finish(p, c, r.error)
             ELSE Continue(p, [c EXCEPT !.pc = "c_redis", !.value = r.finalStockCount,
                                        !.reqId = Len(r.requests), !.qrHash = qrHash])
    /\ UNCHANGED <<redis, released>>

\* updateRedisStock: the set reaches the cache, or fails and is only logged
updateRedisStock(cache, stationId, tireId, newQuantity, ok) ==
    IF ok THEN [cache EXCEPT ![<<stationId, tireId>>] = newQuantity] ELSE cache

\* the catch block: await updateRedisStock(.., 0), then throw
CreateOutOfStock(p, ok) ==
    /\ proc[p].pc = "c_oos"
    /\ redis' = updateRedisStock(redis, proc[p].stationId, proc[p].tireId, 0, ok)
    /\ Finish(p, proc[p], "OUT_OF_STOCK")
    /\ UNCHANGED <<store, history>>

\* what createRequest returns: the request and the quota figures (the QR image
\* is left out)
CreateReturn(c) ==
    [request |-> c.reqId,
     quotaInfo |-> [used |-> c.quotaCheck.used + c.quantity,
                    remaining |-> c.quotaCheck.remaining - c.quantity,
                    max |-> c.quotaCheck.max]]

\* the same step with the failure of the set reaching the caller
CreateRedisThrowing(p, ok) ==
    /\ proc[p].pc = "c_redis"
    /\ redis' = updateRedisStock(redis, proc[p].stationId, proc[p].tireId,
                                 proc[p].value, ok)
    /\ IF ok THEN Finish(p, [proc[p] EXCEPT !.returned = CreateReturn(proc[p])], "OK")
       ELSE Finish(p, proc[p], "REDIS_ERROR")
    /\ UNCHANGED <<store, history>>

\* step 6: the cache write dispatched after the commit; the call returns
CreateRedis(p, ok) ==
    /\ proc[p].pc = "c_redis"
    /\ redis' = updateRedisStock(redis, proc[p].stationId, proc[p].tireId,
                                 proc[p].value, ok)
    /\ Finish(p, [proc[p] EXCEPT !.returned = CreateReturn(proc[p])], "OK")
    /\ UNCHANGED <<store, history>>

\* the calls callers make: <<userId, stationId, tireId, quantity>>.  The verified
\* users ask for the stocked tire at either station in every quantity; one call
\* each has no station, an unverified user, an unknown tire ("t0"), a tire no
\* station stocks.
CreateInputs ==
    (Verified \X Stations \X {"t1"} \X Quantities)
    \cup {<<"u1", NoStation, "t1", 1>>, <<"u3", "s1", "t1", 1>>,
          <<"u1", "s1", "t0", 1>>, <<"u1", "s1", "t2", 1>>}

CreateSteps(p) ==
    \/ \E h \in 1 .. (Len(requests) + 1) : CreateTx(p, h)
    \/ \E ok \in BOOLEAN : CreateOutOfStock(p, ok)
    \/ \E ok \in BOOLEAN : CreateRedis(p, ok)

\* Callers contending for stock: nothing but createRequest calls.  The hash of
\* 16 random bytes never repeats here; the other specifications let it repeat.
CreateRequest(p) ==
    \/ /\ Len(requests) + Pending < MaxRequests
       /\ \E i \in CreateInputs : CreateStart(p, i[1], i[2], i[3], i[4])
    \/ CreateTx(p, Len(requests) + 1)
    \/ \E ok \in BOOLEAN : CreateOutOfStock(p, ok)
    \/ \E ok \in BOOLEAN : CreateRedis(p, ok)

NextCreate == \E p \in Procs : CreateRequest(p)

SpecCreate == Init /\ [][NextCreate]_vars

-----------------------------------------------------------------------------
(* RequestsService.updateRequestStatus *)

\* whoever calls the lifecycle service; changedBy only goes into the event row
Caller == "admin"

\* the condition without its test of the new status
ShouldReleaseAny(status, cur) ==
    /\ cur.status # "ANNULE"
    /\ cur.status # "LIVRE"
    /\ cur.stationId # NoStation

\* "If Cancelling, return stock": the condition under which stock is released
ShouldRelease(status, cur) ==
    /\ status = "ANNULE"
    /\ cur.status # "ANNULE"
    /\ cur.status # "LIVRE"
    /\ cur.stationId # NoStation

\* stationInventory.update: data: { quantity: { increment: quantity } }
ReleaseStock(inv, pair, qty) == [inv EXCEPT ![pair] = @ + qty]

\* data that carries the status alone
UpdatedStatusOnly(cur, status) == [cur EXCEPT !.status = status]
\* data of tireRequest.update: the status, and on LIVRE the delivery stamp and the token
UpdatedRequest(cur, status) ==
    IF status = "LIVRE"
    THEN [cur EXCEPT !.status = status, !.deliveredAt = TRUE, !.qrUsed = TRUE]
    ELSE [cur EXCEPT !.status = status]

\* the transaction: read the request, release on cancellation, write the status
UpdateTx(p, requestId, status) ==
    /\ proc[p].pc = "idle"
    /\ LET c == [Call("updateRequestStatus", Caller) EXCEPT
                    !.reqId = requestId, !.status = status]
       IN IF requestId \notin 1 .. Len(requests)
          THEN /\ Finish(p, c, "REQUEST_NOT_FOUND")
               /\ UNCHANGED <<store, released, releasedOf>>
          ELSE LET cur == requests[requestId]
                   pair == <<cur.stationId, cur.tireId>>
                   c2 == [c EXCEPT !.stationId = cur.stationId, !.tireId = cur.tireId,
                                   !.quantity = cur.quantity]
               IN IF ShouldRelease(status, cur) /\ pair \notin DOMAIN inventory
                  THEN \* the update finds no row and throws: the transaction rolls back
                       /\ Finish(p, c2, "P2025")
                       /\ UNCHANGED <<store, released, releasedOf>>
                  ELSE /\ inventory' = IF ShouldRelease(status, cur)
                                       THEN ReleaseStock(inventory, pair, cur.quantity)
                                       ELSE inventory
                       /\ released' = IF ShouldRelease(status, cur)
                                      THEN [released EXCEPT ![pair] = @ + cur.quantity]
                                      ELSE released
                       /\ releasedOf' = IF ShouldRelease(status, cur)
                                        THEN [releasedOf EXCEPT ![requestId] = @ + cur.quantity]
                                        ELSE releasedOf
                       /\ requests' = [requests EXCEPT
                                          ![requestId] = UpdatedRequest(cur, status)]
                       /\ statusHistory' =
                              Append(statusHistory, StatusEvent(requestId, status))
                       /\ IF status = "ANNULE" /\ cur.stationId # NoStation
                          THEN Continue(p, [c2 EXCEPT !.pc = "u_fresh"])
                          ELSE Finish(p, c2, "OK")
    /\ UNCHANGED <<redis, reservedAt>>

\* "Sync Redis if canceled": the stock is read again after the commit
UpdateFresh(p) ==
    /\ proc[p].pc = "u_fresh"
    /\ LET pair == <<proc[p].stationId, proc[p].tireId>>
       IN IF pair \in DOMAIN inventory
          THEN Continue(p, [proc[p] EXCEPT !.pc = "u_redis", !.value = inventory[pair]])
          ELSE Finish(p, proc[p], "OK")
    /\ UNCHANGED <<store, redis, history>>

UpdateRedis(p, ok) ==
    /\ proc[p].pc = "u_redis"
    /\ redis' = updateRedisStock(redis, proc[p].stationId, proc[p].tireId,
                                 proc[p].value, ok)
    /\ Finish(p, proc[p], "OK")
    /\ UNCHANGED <<store, history>>

-----------------------------------------------------------------------------
(* SellersService *)

\* tireRequest.update with a nested statusHistory create
WriteRequest(requestId, row, status) ==
    /\ requests' = [requests EXCEPT ![requestId] = row]
    /\ statusHistory' = Append(statusHistory, StatusEvent(requestId, status))
    /\ UNCHANGED <<inventory, redis, history>>

\* updateRequestStatus: findFirst by id and the seller's station
SellerUpdateStart(p, sellerId, requestId, status) ==
    /\ proc[p].pc = "idle"
    /\ LET c == [Call("sellerUpdateRequestStatus", sellerId) EXCEPT
                    !.reqId = requestId, !.status = status]
           found == /\ requestId \in 1 .. Len(requests)
                    /\ requests[requestId].stationId = SellerStation[sellerId]
       IN IF found THEN Continue(p, [c EXCEPT !.pc = "s_write"])
          ELSE Finish(p, c, "NOT_FOUND_OR_NOT_ASSIGNED")
    /\ UNCHANGED <<store, redis, history>>

\* updateRequestStatus: the update, by id alone
SellerUpdateWrite(p) ==
    /\ proc[p].pc = "s_write"
    /\ WriteRequest(proc[p].reqId,
                    UpdatedRequest(requests[proc[p].reqId], proc[p].status),
                    proc[p].status)
    /\ Finish(p, proc[p], "OK")

\* acceptRequest: findUnique and the pending check
AcceptStart(p, sellerId, requestId) ==
    /\ proc[p].pc = "idle"
    /\ LET c == [Call("acceptRequest", sellerId) EXCEPT !.reqId = requestId]
       IN IF requestId \notin 1 .. Len(requests)
          THEN Finish(p, c, "REQUEST_NOT_FOUND")
          ELSE IF requests[requestId].status # "EN_ATTENTE"
          THEN Finish(p, c, "NOT_PENDING")
          ELSE Continue(p, [c EXCEPT !.pc = "a_write"])
    /\ UNCHANGED <<store, redis, history>>

\* acceptRequest: the update assigns the seller's station
AcceptWrite(p) ==
    /\ proc[p].pc = "a_write"
    /\ WriteRequest(proc[p].reqId,
                    [requests[proc[p].reqId] EXCEPT
                        !.stationId = SellerStation[proc[p].actor],
                        !.status = "EN_PREPARATION"],
                    "EN_PREPARATION")
    /\ Finish(p, proc[p], "OK")

\* the row a qrCodeHash identifies, NoReq when there is none
RequestByHash(reqs, qrHash) ==
    IF \E i \in 1 .. Len(reqs) : reqs[i].qrCodeHash = qrHash
    THEN CHOOSE i \in 1 .. Len(reqs) : reqs[i].qrCodeHash = qrHash
    ELSE NoReq

\* validateQRCode: "valid" or the reason it is not
validateQRCode(reqs, sellerId, qrHash) ==
    LET i == RequestByHash(reqs, qrHash)
    IN IF i = NoReq THEN "INVALID_QR"
       ELSE IF reqs[i].qrUsed THEN "QR_USED"
       ELSE IF reqs[i].status # "PRET" THEN "NOT_READY"
       ELSE IF reqs[i].stationId # SellerStation[sellerId] THEN "WRONG_STATION"
       ELSE "valid"

\* completeDelivery: the validation
DeliverStart(p, sellerId, qrHash) ==
    /\ proc[p].pc = "idle"
    /\ LET c == [Call("completeDelivery", sellerId) EXCEPT
                    !.qrHash = qrHash, !.reqId = RequestByHash(requests, qrHash)]
           v == validateQRCode(requests, sellerId, qrHash)
       IN IF v = "valid" THEN Continue(p, [c EXCEPT !.pc = "d_write"])
          ELSE Finish(p, c, v)
    /\ UNCHANGED <<store, redis, history>>

\* completeDelivery: the update, by qrCodeHash alone
DeliverWrite(p) ==
    /\ proc[p].pc = "d_write"
    /\ LET i == RequestByHash(requests, proc[p].qrHash)
       IN WriteRequest(i, [requests[i] EXCEPT !.status = "LIVRE", !.qrUsed = TRUE,
                                              !.deliveredAt = TRUE],
                       "LIVRE")
    /\ Finish(p, proc[p], "OK")

-----------------------------------------------------------------------------
(* The whole service: requests are created and taken through their lifecycle *)

\* a further call may still add a status event
Room == Len(statusHistory) + Pending < MaxEvents

CreateLive(p) ==
    \/ /\ Len(requests) + Pending < MaxLiveRequests
       /\ Room
       /\ \E i \in CreateInputs : CreateStart(p, i[1], i[2], i[3], i[4])
    \/ CreateSteps(p)

UpdateRequestStatus(p) ==
    \/ /\ Room
       /\ \E r \in 1 .. (Len(requests) + 1), st \in Statuses : UpdateTx(p, r, st)
    \/ UpdateFresh(p)
    \/ \E ok \in BOOLEAN : UpdateRedis(p, ok)

SellerOps(p) ==
    \/ /\ Room
       /\ \E v \in Sellers, r \in 1 .. (Len(requests) + 1), st \in SellerStatuses :
              SellerUpdateStart(p, v, r, st)
    \/ SellerUpdateWrite(p)
    \/ /\ Room
       /\ \E v \in Sellers, r \in 1 .. (Len(requests) + 1) : AcceptStart(p, v, r)
    \/ AcceptWrite(p)
    \/ /\ Room
       /\ \E v \in Sellers, h \in 0 .. Len(requests) : DeliverStart(p, v, h)
    \/ DeliverWrite(p)

Next == \E p \in Procs : CreateLive(p) \/ UpdateRequestStatus(p) \/ SellerOps(p)

Spec == Init /\ [][Next]_vars

\* callers contending for stock while requests are cancelled and moved on
CreateStock(p) ==
    \/ /\ Len(requests) + Pending < MaxStockRequests
       /\ \E i \in CreateInputs : CreateStart(p, i[1], i[2], i[3], i[4])
    \/ CreateSteps(p)

NextStock == \E p \in Procs : CreateStock(p) \/ UpdateRequestStatus(p)

SpecStock == Init /\ [][NextStock]_vars

\* One user filling a quota while requests are cancelled and delivered: u1 asks
\* for the stocked tire at either station and once for the tire no station
\* stocks, u2 asks once.  The hash never repeats and every cache write reaches
\* Redis here.
QuotaInputs ==
    ({"u1"} \X Stations \X {"t1"} \X Quantities)
    \cup {<<"u1", "s1", "t2", 1>>, <<"u2", "s1", "t1", 1>>}

CreateQuota(p) ==
    \/ /\ Len(requests) + Pending < MaxQuotaRequests
       /\ \E i \in QuotaInputs : CreateStart(p, i[1], i[2], i[3], i[4])
    \/ CreateTx(p, Len(requests) + 1)
    \/ CreateOutOfStock(p, TRUE)
    \/ CreateRedis(p, TRUE)

UpdateQuota(p) ==
    \/ /\ Room
       /\ \E r \in 1 .. (Len(requests) + 1), st \in Statuses : UpdateTx(p, r, st)
    \/ UpdateFresh(p)
    \/ UpdateRedis(p, TRUE)

NextQuota == \E p \in Procs : CreateQuota(p) \/ UpdateQuota(p)

SpecQuota == Init /\ [][NextQuota]_vars

-----------------------------------------------------------------------------
(* Stock reservation: C1 - C5 *)

\* the requests whose creation decremented the row k
ReservedFrom(k) ==
    {i \in 1 .. Len(requests) : reservedAt[i] = k[1] /\ requests[i].tireId = k[2]}

\* a createRequest call went through its guards and ran its transaction
Reserving(c) == c.op = "createRequest" /\ c.quotaCheck.available

\* this step is part of a createRequest call that ends in OUT_OF_STOCK: the
\* transaction that finds no row to update, or the catch block that follows it
OutOfStockStep ==
    \E p \in Procs :
        \/ proc[p].pc = "c_tx" /\ proc'[p].pc = "c_oos"
        \/ proc[p].pc = "c_oos" /\ proc'[p].pc = "idle"

\* C1: in every reachable state, whatever createRequest calls and status
\* transitions were interleaved, every StationInventory quantity is a
\* non-negative integer.
C1_QuantityNonNegative == \A k \in DOMAIN inventory : inventory[k] \in Nat

\* a row was emptied by reservations after a cancellation had given stock back
C1_Witness ==
    \E k \in DOMAIN inventory :
        inventory[k] = 0 /\ released[k] > 0 /\ ReservedFrom(k) # {}

\* C2: with only createRequest calls contending, the successful calls on a
\* station/tire pair total at most its initial stock K, the stock left is K
\* minus their sum, and a call that reached the reservation succeeds exactly
\* when the stock it found covered its quantity and fails with OUT_OF_STOCK
\* otherwise.
C2_NoOversell ==
    /\ \A k \in DOMAIN inventory :
          /\ SumQuantity(requests, ReservedFrom(k)) <= InitialInventory[k]
          /\ inventory[k] = InitialInventory[k] - SumQuantity(requests, ReservedFrom(k))
    /\ Reserving(result) =>
          /\ result.outcome \in {"OK", "OUT_OF_STOCK"}
          /\ result.outcome = "OK" <=> result.stockBefore >= result.quantity

\* stock 3: of two concurrent calls for 2 units by different users one took
\* the stock down to 1 and the other is refused
C2_Witness ==
    /\ InitialInventory[<<"s1", "t1">>] = 3
    /\ Len(requests) = 1
    /\ requests[1].quantity = 2
    /\ inventory[<<"s1", "t1">>] = 1
    /\ result.op = "createRequest"
    /\ result.outcome = "OUT_OF_STOCK"
    /\ result.stationId = "s1" /\ result.tireId = "t1" /\ result.quantity = 2
    /\ result.actor # requests[1].userId
    /\ result.quotaCheck.used = 0

\* C3: a createRequest call that fails with OUT_OF_STOCK adds no TireRequest
\* row and no RequestStatusEvent row and leaves every stock as it was.
C3_OutOfStockLeavesStore == [][OutOfStockStep => UNCHANGED store]_vars

\* a call was refused although the row still held stock
C3_Witness ==
    /\ result.op = "createRequest"
    /\ result.outcome = "OUT_OF_STOCK"
    /\ result.stockBefore > 0
    /\ inventory[<<result.stationId, result.tireId>>] = result.stockBefore

\* C4: a createRequest call that ends in OUT_OF_STOCK mutates nothing: not
\* the stock, the request rows, the status events, nor the cached stock.
C4_OutOfStockMutatesNothing == [][OutOfStockStep => UNCHANGED <<store, redis>>]_vars

\* C5: reservation and persistence are all-or-nothing: in every reachable
\* state the stock missing from a row, cancellations set aside, is exactly the
\* quantity of the request rows whose creation decremented it.
C5_AllOrNothing ==
    \A k \in DOMAIN inventory :
        inventory[k] + SumQuantity(requests, ReservedFrom(k)) - released[k]
            = InitialInventory[k]

\* the insert hit the unique constraint after the decrement, and the stock is
\* back at what the transaction found
C5_Witness ==
    /\ result.op = "createRequest"
    /\ result.outcome = "P2002"
    /\ result.stockBefore >= result.quantity
    /\ inventory[<<result.stationId, result.tireId>>] = result.stockBefore

-----------------------------------------------------------------------------
(* Request lifecycle: C6 - C10 *)

\* this step is the transaction of an updateRequestStatus(r, ANNULE) call: it
\* went on to the cache sync, or the call threw in the transaction
CancelStep(r) ==
    \/ \E p \in Procs :
          proc[p].pc = "idle" /\ proc'[p].pc = "u_fresh" /\ proc'[p].reqId = r
    \/ /\ UNCHANGED proc
       /\ result'.op = "updateRequestStatus"
       /\ result'.status = "ANNULE"
       /\ result'.reqId = r

\* the edges of the request state machine
Edges ==
    {<<"EN_ATTENTE", "EN_PREPARATION">>, <<"EN_PREPARATION", "PRET">>, <<"PRET", "LIVRE">>}
    \cup ({"EN_ATTENTE", "EN_PREPARATION", "PRET"} \X {"ANNULE"})

\* C6: the step that cancels a request that is neither ANNULE nor LIVRE adds
\* the request's quantity to the stock of the row its creation decremented,
\* and changes no other stock.
C6_CancelRestoresReservedRow ==
    [][\A r \in 1 .. Len(requests) :
          (requests[r].status \notin {"ANNULE", "LIVRE"} /\ requests'[r].status = "ANNULE")
          => inventory' = [inventory EXCEPT
                              ![<<reservedAt[r], requests[r].tireId>>] =
                                  @ + requests[r].quantity]]_vars

\* C7: a cancellation of a request that is already ANNULE fails with
\* InvalidTransition and leaves the status, the stock and the event log alone.
C7_SecondCancelRejected ==
    [][\A r \in 1 .. Len(requests) :
          (requests[r].status = "ANNULE" /\ CancelStep(r))
          => (result'.outcome = "INVALID_TRANSITION" /\ UNCHANGED store)]_vars

\* C8: a cancellation of a request that is LIVRE is rejected with
\* InvalidTransition: the request stays LIVRE, no stock is released, no event
\* is appended.
C8_CancelDeliveredRejected ==
    [][\A r \in 1 .. Len(requests) :
          (requests[r].status = "LIVRE" /\ CancelStep(r))
          => /\ result'.outcome = "INVALID_TRANSITION"
             /\ requests'[r].status = "LIVRE"
             /\ UNCHANGED <<inventory, statusHistory>>]_vars

\* C9: LIVRE is terminal: no step changes the status of a request that is LIVRE.
C9_DeliveredTerminal ==
    [][\A r \in 1 .. Len(requests) :
          requests[r].status = "LIVRE" => requests'[r].status = "LIVRE"]_vars

\* C10: every status change follows an edge of the state machine.
C10_TransitionsFollowEdges ==
    [][\A r \in 1 .. Len(requests) :
          requests'[r].status # requests[r].status
          => <<requests[r].status, requests'[r].status>> \in Edges]_vars

-----------------------------------------------------------------------------
(* Delivery and release of stock: C11 - C13 *)

\* this step accepts a delivery of request r: it appends a LIVRE event for it
DeliveryStep(r) == statusHistory' = Append(statusHistory, StatusEvent(r, "LIVRE"))

\* C11: once the token of a request is consumed (qrUsed), no further delivery
\* of it is accepted, by completeDelivery or by either updateRequestStatus: no
\* step appends a LIVRE event for it.
C11_TokenSingleUse ==
    [][\A r \in 1 .. Len(requests) : requests[r].qrUsed => ~DeliveryStep(r)]_vars

\* C12: the quantity cancellations add back to stock on behalf of one request
\* never exceeds the quantity of that request.
C12_ReleasedAtMostOnce ==
    \A r \in 1 .. Len(requests) : releasedOf[r] <= requests[r].quantity

\* C13: no request has both its stock released and a delivery on record
\* (status LIVRE or token consumed).
C13_NoReleaseAndDelivery ==
    \A r \in 1 .. Len(requests) :
        releasedOf[r] > 0 => (requests[r].status # "LIVRE" /\ ~requests[r].qrUsed)

-----------------------------------------------------------------------------
(* Quota: C14 - C17 *)

TireTypes == {"LEGER", "LOURD"}

\* the quantity the quota filter counts for a user and a tire type this year
QuotaUsed(userId, tireType) ==
    SumQuantity(requests, QuotaFilter(requests, userId, tireType, CurrentYear))

\* C14: for every user and tire type, the quantity of the requests the quota
\* filter counts never exceeds the cap of the type, concurrent createRequest
\* calls of one user included.
C14_QuotaNeverExceeded ==
    \A u \in Users, t \in TireTypes : QuotaUsed(u, t) <= getMaxQuota(t)

\* the createRequest calls that ran their guards in this step: the one that
\* went on to its transaction, or the one a guard ended
StartedCreate ==
    {c \in {proc'[p] : p \in Procs} \cup {result'} :
        /\ c.op = "createRequest"
        /\ \/ \E p \in Procs : proc[p].pc = "idle" /\ proc'[p] = c /\ c.pc = "c_tx"
           \/ UNCHANGED proc /\ c = result' /\ c.pc = "done"}

\* the requests of a user for a tire type this year, whatever their status
RequestsOf(userId, tireType) ==
    {i \in 1 .. Len(requests) :
        /\ requests[i].userId = userId
        /\ requests[i].year = CurrentYear
        /\ TireType[requests[i].tireId] = tireType}

\* C15: once the successful requests of a user whose cap is 4 total exactly 4
\* units this year, a further call for 1 unit is refused for its quota with
\* remaining = 0, whatever status those requests have reached since.
C15_QuotaMonotone ==
    [][\A c \in StartedCreate :
          (/\ c.stationId # NoStation /\ c.actor \in Verified /\ c.tireId \in Tires
           /\ c.quantity = 1
           /\ getMaxQuota(TireType[c.tireId]) = 4
           /\ SumQuantity(requests, RequestsOf(c.actor, TireType[c.tireId])) = 4)
          => (c.outcome = "QUOTA_EXCEEDED" /\ c.quotaCheck.remaining = 0)]_vars

\* C16: the quota check of a createRequest call returns max = the cap of the
\* tire type (LEGER 4, LOURD 8), used = the quantity of the user's requests of
\* that type and year in any status but LIVRE (ANNULE included), remaining =
\* max - used and available = (remaining >= requested quantity).
C16_QuotaResult ==
    [][\A c \in StartedCreate :
          (c.stationId # NoStation /\ c.actor \in Verified /\ c.tireId \in Tires)
          => LET type == TireType[c.tireId]
                 cap == IF type = "LEGER" THEN 4 ELSE 8
                 counted == {i \in RequestsOf(c.actor, type) :
                                requests[i].status # "LIVRE"}
                 used == SumQuantity(requests, counted)
             IN /\ c.quotaCheck.max = cap
                /\ c.quotaCheck.used = used
                /\ c.quotaCheck.remaining = cap - used
                /\ c.quotaCheck.available = (cap - used >= c.quantity)
                /\ c.pc = "done" <=> ~c.quotaCheck.available]_vars

\* a check that counted a cancelled request of the user and left a delivered
\* one out
C16_Witness ==
    \E p \in Procs :
        /\ proc[p].pc = "c_tx"
        /\ proc[p].quotaCheck.used > 0
        /\ \E i, j \in RequestsOf(proc[p].actor, TireType[proc[p].tireId]) :
              /\ requests[i].status = "ANNULE"
              /\ requests[j].status = "LIVRE"
              /\ proc[p].quotaCheck.used =
                    SumQuantity(requests, RequestsOf(proc[p].actor, TireType[proc[p].tireId]))
                        - requests[j].quantity

\* the precondition a createRequest call c fails in the current state
PreconditionError(c) ==
    IF c.stationId = NoStation THEN "STATION_REQUIRED"
    ELSE IF c.actor \notin Verified THEN "NOT_VERIFIED"
    ELSE IF c.tireId \notin Tires THEN "TIRE_NOT_FOUND"
    ELSE IF getMaxQuota(TireType[c.tireId]) - QuotaUsed(c.actor, TireType[c.tireId])
                < c.quantity
    THEN "QUOTA_EXCEEDED"
    ELSE "none"

\* C17: a createRequest call that fails a precondition (no station, user not
\* verified, unknown tire, remaining quota below the quantity) goes no further
\* than its guards: it ends with that error and leaves stock, request rows,
\* status events and the cache as they were.
C17_FailedPreconditionNoEffect ==
    [][/\ \A p \in Procs :
            (proc[p].pc = "idle" /\ proc'[p].pc = "c_tx")
            => PreconditionError(proc'[p]) = "none"
       /\ (UNCHANGED proc /\ result'.op = "createRequest" /\ result'.pc = "done")
            => (result'.outcome = PreconditionError(result')
                /\ UNCHANGED <<store, redis>>)]_vars

\* a call was refused for its quota while the cache held the stock an earlier
\* call had written
C17_Witness ==
    /\ result.op = "createRequest"
    /\ result.outcome = "QUOTA_EXCEEDED"
    /\ result.quotaCheck.remaining < result.quantity
    /\ redis[<<result.stationId, result.tireId>>] = inventory[<<result.stationId, result.tireId>>]
    /\ Len(statusHistory) = Len(requests)

-----------------------------------------------------------------------------
(* Status events and delivery marks: C18 - C19 *)

\* the status of the event appended last for request r
LastEventStatus(hist, r) ==
    LET ks == {k \in 1 .. Len(hist) : hist[k].requestId = r}
    IN IF ks = {} THEN "none"
       ELSE hist[CHOOSE k \in ks : \A j \in ks : j <= k].status

\* C18: the event log follows the status of every request.  A creation writes
\* the row in EN_ATTENTE with one EN_ATTENTE event; every other change of a
\* row, and every event appended, is one event for that request carrying its
\* new status; a call that is refused appends none; and after every step the
\* last event of each request carries the status of its row.
C18_EventLogConsistent ==
    [][/\ Len(requests') > Len(requests) =>
            /\ requests'[Len(requests')].status = "EN_ATTENTE"
            /\ statusHistory' = Append(statusHistory,
                   [requestId |-> Len(requests'), status |-> "EN_ATTENTE"])
       /\ \A r \in 1 .. Len(requests) :
            requests'[r] # requests[r] =>
                statusHistory' = Append(statusHistory,
                    [requestId |-> r, status |-> requests'[r].status])
       /\ statusHistory' # statusHistory =>
            /\ \E r \in 1 .. Len(requests') :
                  statusHistory' = Append(statusHistory,
                      [requestId |-> r, status |-> requests'[r].status])
            /\ result'.outcome \in {"none", "OK"}
       /\ (result'.pc = "done" /\ result'.outcome # "OK") => UNCHANGED statusHistory
       /\ \A r \in 1 .. Len(requests') :
            LastEventStatus(statusHistory', r) = requests'[r].status]_vars

\* a request was made ready and delivered by one seller while the acceptance
\* another call had started on it was still to be written
C18_Witness ==
    /\ Len(statusHistory) >= 3
    /\ requests[1].status = "LIVRE"
    /\ result.op = "completeDelivery" /\ result.outcome = "OK"
    /\ \E p \in Procs : proc[p].pc = "a_write" /\ proc[p].reqId = 1

\* C19: a request whose status is LIVRE has its token consumed and its delivery
\* stamp set, whichever operation delivered it.
C19_DeliveredIsMarked ==
    \A r \in 1 .. Len(requests) :
        requests[r].status = "LIVRE" => (requests[r].qrUsed /\ requests[r].deliveredAt)

\* a request delivered by the status update of a seller
C19_Witness ==
    /\ result.op = "sellerUpdateRequestStatus"
    /\ result.status = "LIVRE"
    /\ result.outcome = "OK"
    /\ requests[result.reqId].status = "LIVRE"
    /\ requests[result.reqId].qrUsed

-----------------------------------------------------------------------------
(* The cache: C20 *)

\* Callers whose cache writes all reach Redis.  They ask for one unit of the
\* stocked tire, which the stock always covers here, and once for the tire no
\* station stocks; requests are cancelled and moved on meanwhile.
CacheInputs ==
    (Verified \X Stations \X {"t1"} \X {1}) \cup {<<"u1", "s1", "t2", 1>>}

CacheWrites(p) ==
    \/ /\ Len(requests) + Pending < MaxStockRequests
       /\ \E i \in CacheInputs : CreateStart(p, i[1], i[2], i[3], i[4])
    \/ CreateTx(p, Len(requests) + 1)
    \/ CreateOutOfStock(p, TRUE)
    \/ CreateRedis(p, TRUE)
    \/ /\ Room
       /\ \E r \in 1 .. (Len(requests) + 1), st \in Statuses : UpdateTx(p, r, st)
    \/ UpdateFresh(p)
    \/ UpdateRedis(p, TRUE)

NextCache == \E p \in Procs : CacheWrites(p)

SpecCache == Init /\ [][NextCache]_vars

\* no call is under way: every cache write that was dispatched has been applied
Quiescent == \A p \in Procs : proc[p].pc = "idle"

\* C20: once no call is under way and every cache write has been applied, the
\* cached value of each station/tire row that was written equals the stock of
\* the row, in whatever order the writes of concurrent calls were applied.
C20_CacheConverges ==
    Quiescent =>
        \A k \in DOMAIN inventory : redis[k] # NoValue => redis[k] = inventory[k]

-----------------------------------------------------------------------------
(* The cache and the transaction: C21 - C22 *)

\* worker p applies the cache write of its call in this step and the call ends
CacheWriteStep(p) ==
    proc[p].pc \in {"c_redis", "c_oos", "u_redis"} /\ proc'[p].pc = "idle"

\* C21: whether or not the cache write of a createRequest or of a cancellation
\* reaches Redis, the call ends the way its transaction decided (OK after a
\* commit, OUT_OF_STOCK after the refusal) and the store keeps what was
\* committed: the stock, the request row, the status events.
C21_CacheFailureNotSurfaced ==
    [][\A p \in Procs :
          CacheWriteStep(p) =>
              /\ UNCHANGED store
              /\ result'.outcome = IF proc[p].pc = "c_oos" THEN "OUT_OF_STOCK" ELSE "OK"
              /\ proc[p].pc # "c_oos" => proc[p].reqId \in 1 .. Len(requests')]_vars

\* a createRequest returned OK although its cache write failed: the cache does
\* not hold the stock the call committed
C21_Witness ==
    /\ result.op = "createRequest"
    /\ result.outcome = "OK"
    /\ redis[<<result.stationId, result.tireId>>] # result.value
    /\ inventory[<<result.stationId, result.tireId>>] = result.value
    /\ requests[result.reqId].quantity = result.quantity

\* C22: the cache is written only by a call whose transaction is over: no step
\* that changes the store writes the cache, and every step that changes the
\* cache is the cache write of a call that has committed (its request row is
\* there) or was refused for lack of stock.
C22_CommitBeforeDispatch ==
    [][/\ store' # store => UNCHANGED redis
       /\ redis' # redis =>
            \E p \in Procs :
                /\ CacheWriteStep(p)
                /\ proc[p].pc # "c_oos" => proc[p].reqId \in 1 .. Len(requests)]_vars

\* the cache write of a committed cancellation was applied
C22_Witness ==
    /\ result.op = "updateRequestStatus"
    /\ result.status = "ANNULE"
    /\ result.outcome = "OK"
    /\ redis[<<result.stationId, result.tireId>>] = result.value
    /\ released[<<result.stationId, result.tireId>>] > 0

-----------------------------------------------------------------------------
(* Two runs of the same calls over different caches: C23 *)

\* what the cache may hold when the service starts: every pair out of stock, or
\* every pair with more than any station stocks
TwinCaches == {[k \in Pairs |-> v] : v \in {0, InitStock + MaxInputQty}}

\* the calls of a run: u1 asks for the stocked tire at either station and once
\* for the tire no station stocks, the unverified u3 asks once
TwinInputs ==
    ({"u1"} \X Stations \X {"t1"} \X Quantities)
    \cup {<<"u1", "s1", "t2", 1>>, <<"u3", "s1", "t1", 1>>}

\* the run may go on with the call c: the first run with any call, the second
\* with the call the first run made at this position
TwinMayCall(c) ==
    /\ twin.on
    /\ IF twin.phase = 1 THEN Len(twin.calls) < MaxTwinCalls
       ELSE /\ twin.pos <= Len(twin.calls)
            /\ twin.calls[twin.pos].call = CallOf(c)

\* one caller after the other: createRequest and updateRequestStatus calls, each
\* cache write reaching Redis or not
TwinRequests(p) ==
    \/ \E i \in TwinInputs :
          /\ TwinMayCall([Call("createRequest", i[1]) EXCEPT
                             !.stationId = i[2], !.tireId = i[3], !.quantity = i[4]])
          /\ CreateStart(p, i[1], i[2], i[3], i[4])
    \/ CreateTx(p, Len(requests) + 1)
    \/ \E ok \in BOOLEAN : CreateOutOfStock(p, ok)
    \/ \E ok \in BOOLEAN : CreateRedis(p, ok)
    \/ \E r \in 1 .. (Len(requests) + 1), st \in Statuses :
          /\ TwinMayCall([Call("updateRequestStatus", Caller) EXCEPT
                             !.reqId = r, !.status = st])
          /\ UpdateTx(p, r, st)
    \/ UpdateFresh(p)
    \/ \E ok \in BOOLEAN : UpdateRedis(p, ok)

\* the sellers' calls, one after the other
TwinSellers(p) ==
    \/ \E v \in Sellers, r \in 1 .. (Len(requests) + 1), st \in SellerStatuses :
          /\ TwinMayCall([Call("sellerUpdateRequestStatus", v) EXCEPT
                             !.reqId = r, !.status = st])
          /\ SellerUpdateStart(p, v, r, st)
    \/ SellerUpdateWrite(p)
    \/ \E v \in Sellers, r \in 1 .. (Len(requests) + 1) :
          /\ TwinMayCall([Call("acceptRequest", v) EXCEPT !.reqId = r])
          /\ AcceptStart(p, v, r)
    \/ AcceptWrite(p)
    \/ \E v \in Sellers, h \in 0 .. Len(requests) :
          /\ TwinMayCall([Call("completeDelivery", v) EXCEPT !.qrHash = h])
          /\ DeliverStart(p, v, h)
    \/ DeliverWrite(p)

\* the first run is over: the service starts again on the database as it was
\* seeded, with a cache that holds other values
TwinRestart ==
    /\ twin.on
    /\ twin.phase = 1
    /\ Quiescent
    /\ Len(twin.calls) >= 1
    /\ \E cache \in TwinCaches :
          /\ redis' = cache
          /\ twin' = [twin EXCEPT
                         !.phase = 2,
                         !.cache = cache,
                         !.first = [inventory |-> inventory, requests |-> requests,
                                    statusHistory |-> statusHistory]]
    /\ inventory' = EmptyStore.inventory
    /\ requests' = EmptyStore.requests
    /\ statusHistory' = EmptyStore.statusHistory
    /\ proc' = [p \in Procs |-> Idle]
    /\ result' = Idle
    /\ reservedAt' = <<>>
    /\ released' = [k \in Pairs |-> 0]
    /\ releasedOf' = <<>>

InitTwin ==
    /\ inventory = EmptyStore.inventory
    /\ requests = EmptyStore.requests
    /\ statusHistory = EmptyStore.statusHistory
    /\ redis = EmptyCache
    /\ proc = [p \in Procs |-> Idle]
    /\ result = Idle
    /\ reservedAt = <<>>
    /\ released = [k \in Pairs |-> 0]
    /\ releasedOf = <<>>
    /\ twin = [NoTwin EXCEPT !.on = TRUE]

NextTwin == TwinRequests(1) \/ TwinSellers(1) \/ TwinRestart

SpecTwin == InitTwin /\ [][NextTwin]_vars

\* C23: a second run that starts from the same store as a first run, with
\* another cache, and is given the same createRequest, updateRequestStatus and
\* seller calls in the same order, answers every call as the first run did (the same
\* return value or the same error) and ends with the same stock, the same
\* requests and the same status events.
C23_CacheIndependent ==
    twin.phase = 2 =>
        /\ twin.same
        /\ twin.pos > Len(twin.calls) =>
              /\ inventory = twin.first.inventory
              /\ requests = twin.first.requests
              /\ statusHistory = twin.first.statusHistory

\* both runs are over: a request was created at s1 although the cache of the
\* second run said the pair was out of stock, a later call was refused for
\* lack of stock, and a request was cancelled
C23_Witness ==
    /\ twin.phase = 2
    /\ twin.pos > Len(twin.calls)
    /\ Len(twin.calls) = MaxTwinCalls
    /\ twin.cache[<<"s1", "t1">>] = 0
    /\ twin.calls[1].call.op = "createRequest"
    /\ twin.calls[1].call.stationId = "s1"
    /\ twin.calls[1].reply.outcome = "OK"
    /\ \E i \in 1 .. Len(twin.calls) : twin.calls[i].reply.outcome = "OUT_OF_STOCK"
    /\ \E i \in 1 .. Len(twin.calls) :
          /\ twin.calls[i].call.status = "ANNULE"
          /\ twin.calls[i].reply.outcome = "OK"
    /\ Len(requests) = 1
    /\ requests[1].status = "ANNULE"

-----------------------------------------------------------------------------
(* Reservation results and the frame of the stock: C24 - C28 *)

\* C24: a createRequest for a station/tire pair that has no StationInventory
\* row is refused with OUT_OF_STOCK: its transaction and its catch block
\* create no inventory row and no request row.
C24_ReserveFailsClosed ==
    [][\A p \in Procs :
          /\ (/\ proc[p].pc = "c_tx"
              /\ proc'[p] # proc[p]
              /\ <<proc[p].stationId, proc[p].tireId>> \notin DOMAIN inventory)
             => (proc'[p].pc = "c_oos" /\ UNCHANGED store)
          /\ (proc[p].pc = "c_oos" /\ proc'[p] # proc[p])
             => (result'.outcome = "OUT_OF_STOCK" /\ UNCHANGED store)]_vars

\* a call for a pair without a row was refused while requests for stocked
\* pairs exist
C24_Witness ==
    /\ result.op = "createRequest"
    /\ result.outcome = "OUT_OF_STOCK"
    /\ result.stockBefore = NoValue
    /\ <<result.stationId, result.tireId>> \notin DOMAIN inventory
    /\ DOMAIN inventory = DOMAIN InitialInventory
    /\ Len(requests) >= 1

\* C25: a successful createRequest returns the created request, the stock its
\* own decrement left (the stock it found minus its quantity) and the quota
\* figures used = previousUsed + quantity, remaining = max - used.
C25_CreateReturnValue ==
    (result.op = "createRequest" /\ result.outcome = "OK") =>
        /\ result.returned.request = result.reqId
        /\ "stock" \in DOMAIN result.returned
        /\ result.returned.stock = result.stockBefore - result.quantity
        /\ result.returned.quotaInfo.used = result.quotaCheck.used + result.quantity
        /\ result.returned.quotaInfo.remaining =
              result.returned.quotaInfo.max - result.returned.quotaInfo.used

\* C26: a stock changes only in the step that creates a request (by minus its
\* quantity, at its pair) and in the step that cancels a request that was
\* neither ANNULE nor LIVRE (by plus its quantity): the seller operations, the
\* other status changes and every refused call leave every stock as it was.
C26_StockFrame ==
    [][/\ inventory' # inventory =>
            \/ /\ Len(requests') = Len(requests) + 1
               /\ LET n == requests'[Len(requests')]
                  IN inventory' = [inventory EXCEPT
                                      ![<<n.stationId, n.tireId>>] = @ - n.quantity]
            \/ \E r \in 1 .. Len(requests) :
                  /\ requests[r].status \notin {"ANNULE", "LIVRE"}
                  /\ requests'[r].status = "ANNULE"
                  /\ result'.op \in {"none", "updateRequestStatus"}
                  /\ inventory' = [inventory EXCEPT
                                      ![<<requests[r].stationId, requests[r].tireId>>] =
                                          @ + requests[r].quantity]
       /\ (\E p \in Procs : proc[p].pc \in {"s_write", "a_write", "d_write"}
                            /\ proc'[p] # proc[p])
            => UNCHANGED inventory
       /\ result'.outcome \notin {"none", "OK"} => UNCHANGED inventory]_vars

\* a seller delivered a request and the stock is what the reservation left
C26_Witness ==
    /\ result.op = "completeDelivery"
    /\ result.outcome = "OK"
    /\ requests[result.reqId].status = "LIVRE"
    /\ LET k == <<reservedAt[result.reqId], requests[result.reqId].tireId>>
       IN inventory[k] = InitialInventory[k] - requests[result.reqId].quantity

\* C27: no stock ever exceeds its initial value, and the stock missing from a
\* row is the quantity of the requests reserved at it that are not cancelled.
C27_StockWithinInitial ==
    \A k \in DOMAIN inventory :
        /\ inventory[k] <= InitialInventory[k]
        /\ InitialInventory[k] - inventory[k] =
              SumQuantity(requests,
                          {i \in ReservedFrom(k) : requests[i].status # "ANNULE"})

\* C28: no step changes the station of a request.
C28_StationFixed ==
    [][\A r \in 1 .. Len(requests) :
          requests'[r].stationId = requests[r].stationId]_vars

-----------------------------------------------------------------------------
(* Races of the seller operations: C29 - C30 *)

\* C29: when completeDelivery applies its update, the request is PRET, its
\* token is unused and it is assigned to the station of the calling seller.
C29_DeliveryChecksAtUpdate ==
    [][\A p \in Procs :
          (proc[p].pc = "d_write" /\ proc'[p] # proc[p])
          => LET cur == requests[proc[p].reqId]
             IN /\ cur.status = "PRET"
                /\ ~cur.qrUsed
                /\ cur.stationId = SellerStation[proc[p].actor]]_vars

\* C30: when acceptRequest applies its update, the request is EN_ATTENTE.
C30_AcceptChecksAtUpdate ==
    [][\A p \in Procs :
          (proc[p].pc = "a_write" /\ proc'[p] # proc[p])
          => requests[proc[p].reqId].status = "EN_ATTENTE"]_vars

====
